---- MODULE Spec2Model ----
(***************************************************************************)
(* Model of pyscf/scf/__init__.py: the solver selectors RHF, ROHF, UHF,    *)
(* DHF and the two-phase driver fast_newton.                               *)
(*                                                                         *)
(* Objects are records.  A reference to an object is the name of the       *)
(* place that allocates it; every allocation site of fast_newton runs at   *)
(* most once per call, so equal names mean the same object.  Python's None *)
(* is the string "None" (the tuple <<"None">> for orbitals), a missing     *)
(* attribute is "absent".  The level shift is an integer in hundredths     *)
(* (.3 is 30); the tolerances are kept as the text of their literals.      *)
(***************************************************************************)
EXTENDS Integers, Sequences, FiniteSets, TLC

VARIABLES
    mol,          \* the molecule handed to a selector
    called,       \* the selector that was called ("none" before the call)
    result,       \* the class the selector returned
    pc,           \* position of fast_newton
    mf,           \* the caller's solver handle
    dm0,          \* argument dm0
    mo_coeff,     \* argument / local mo_coeff
    mo_occ,       \* argument / local mo_occ
    auxbasis,     \* argument / local auxbasis
    newton_kwargs,\* keys of **newton_kwargs
    mf1,          \* the refined solver
    mf0,          \* the warm-start solver
    approx_grids, \* the Grids object allocated at line 192
    args,         \* the arguments fast_newton was called with (never rebound)
    made,         \* solver objects constructed so far, in order
    runs,         \* solver kernels executed so far, in order
    built,        \* auxiliary tensor caches constructed so far, in order
    written,      \* the results fast_newton copied onto mf
    ret,          \* value returned by the last call of mf.kernel after the return
    recalls       \* number of such calls

vars == <<mol, called, result, pc, mf, dm0, mo_coeff, mo_occ, auxbasis,
          newton_kwargs, mf1, mf0, approx_grids, args, made, runs, built,
          written, ret, recalls>>

selvars == <<mol, called, result>>

pipevars == <<pc, mf, dm0, mo_coeff, mo_occ, auxbasis, newton_kwargs, mf1, mf0,
              approx_grids, args, made, runs, built, written, ret, recalls>>

(***************************************************************************)
(* Bounds                                                                  *)
(***************************************************************************)
MaxElectrons == 3

MaxSpin == 2

MaxRecalls == 2

(***************************************************************************)
(* The molecule.  groupname is a string object: its text and whether it is *)
(* the very object of the literal 'C1' in the module (the selectors test   *)
(* it with `is`, which compares objects, not text).                        *)
(***************************************************************************)
GroupNames ==
    { [name |-> "C1",  literal |-> TRUE],
      [name |-> "C1",  literal |-> FALSE],
      [name |-> "C2v", literal |-> FALSE],
      [name |-> "D2h", literal |-> FALSE] }

Molecules ==
    [ nelectron : 0..MaxElectrons,
      spin      : 0..MaxSpin,
      symmetry  : BOOLEAN,
      groupname : GroupNames ]

\* mol.groupname is 'C1'
groupname_is_C1(m) == m.groupname.name = "C1" /\ m.groupname.literal

(***************************************************************************)
(* Selectors                                                               *)
(***************************************************************************)
RHF(m) ==
    IF m.nelectron = 1
    THEN IF m.symmetry THEN "hf_symm.HF1e" ELSE "hf.HF1e"
    ELSE IF ~m.symmetry \/ groupname_is_C1(m)
         THEN IF m.spin > 0 THEN "rohf.ROHF" ELSE "hf.RHF"
         ELSE IF m.spin > 0 THEN "hf_symm.ROHF" ELSE "hf_symm.RHF"

ROHF(m) ==
    IF m.nelectron = 1
    THEN IF m.symmetry THEN "hf_symm.HF1e" ELSE "hf.HF1e"
    ELSE IF ~m.symmetry \/ groupname_is_C1(m)
         THEN "rohf.ROHF"
         ELSE "hf_symm.ROHF"

UHF(m) ==
    IF m.nelectron = 1
    THEN RHF(m)
    ELSE IF ~m.symmetry \/ groupname_is_C1(m)
         THEN "uhf.UHF"
         ELSE "uhf_symm.UHF"

DHF_always_many(m) == "dhf.UHF"

DHF(m) ==
    IF m.nelectron = 1 THEN "dhf.HF1e" ELSE "dhf.UHF"

RKS(m) == "dft.RKS"

Select(s, m) ==
    CASE s = "RHF"  -> RHF(m)
      [] s = "ROHF" -> ROHF(m)
      [] s = "UHF"  -> UHF(m)
      [] s = "DHF"  -> DHF(m)

OneElectronVariants == {"hf.HF1e", "hf_symm.HF1e", "dhf.HF1e"}

ManyElectronVariants ==
    {"hf.RHF", "rohf.ROHF", "uhf.UHF", "hf_symm.RHF", "hf_symm.ROHF",
     "uhf_symm.UHF", "dhf.UHF"}

\* the symmetry-adapted class of a plain class
SymmOf(v) ==
    CASE v = "hf.HF1e"   -> "hf_symm.HF1e"
      [] v = "hf.RHF"    -> "hf_symm.RHF"
      [] v = "rohf.ROHF" -> "hf_symm.ROHF"
      [] v = "uhf.UHF"   -> "uhf_symm.UHF"
      [] OTHER           -> v

(***************************************************************************)
(* Selection as a state machine: a selector is called once on a molecule.  *)
(***************************************************************************)
Range(q) == { q[i] : i \in DOMAIN q }

Count(x, q) == Cardinality({ i \in DOMAIN q : q[i] = x })

None == <<"None">>

NoSolver ==
    [ exists |-> FALSE, name |-> "none", class |-> "none", decor |-> <<>>,
      auxbasis |-> "None", converged |-> FALSE, e_tot |-> 0,
      mo_energy |-> None, mo_coeff |-> None, mo_occ |-> None,
      conv_tol |-> "1e-10", conv_tol_grad |-> "None", level_shift |-> 0,
      grids |-> "absent", _numint |-> "absent", small_rho_cutoff |-> "absent",
      _cderi |-> "None", _naoaux |-> "None", attrs |-> {}, kernel |-> "scf" ]

NoGrids == [ exists |-> FALSE, level |-> 3, verbose |-> 0, pruned |-> FALSE ]

NoResults ==
    [ converged |-> FALSE, e_tot |-> 0, mo_energy |-> None, mo_coeff |-> None,
      mo_occ |-> None, nruns |-> 0 ]

NoReturn == [ e_tot |-> 0, with |-> None ]

PipelineIdle ==
    /\ pc = "idle"
    /\ mf = NoSolver
    /\ mf1 = NoSolver
    /\ mf0 = NoSolver
    /\ dm0 = "None"
    /\ mo_coeff = None
    /\ mo_occ = None
    /\ auxbasis = "None"
    /\ newton_kwargs = {}
    /\ approx_grids = NoGrids
    /\ args = [dm0 |-> "None", mo_coeff |-> None, mo_occ |-> None, auxbasis |-> "None"]
    /\ made = <<>>
    /\ runs = <<>>
    /\ built = <<>>
    /\ written = NoResults
    /\ ret = NoReturn
    /\ recalls = 0

InitSelect ==
    /\ mol \in Molecules
    /\ called = "none"
    /\ result = "none"
    /\ PipelineIdle

CallRHF ==
    /\ called = "none"
    /\ called' = "RHF"
    /\ result' = RHF(mol)
    /\ UNCHANGED <<mol, pipevars>>

CallROHF ==
    /\ called = "none"
    /\ called' = "ROHF"
    /\ result' = ROHF(mol)
    /\ UNCHANGED <<mol, pipevars>>

CallUHF ==
    /\ called = "none"
    /\ called' = "UHF"
    /\ result' = UHF(mol)
    /\ UNCHANGED <<mol, pipevars>>

CallDHF ==
    /\ called = "none"
    /\ called' = "DHF"
    /\ result' = DHF(mol)
    /\ UNCHANGED <<mol, pipevars>>

NextSelect == CallRHF \/ CallROHF \/ CallUHF \/ CallDHF

SpecSelect == InitSelect /\ [][NextSelect]_vars

(***************************************************************************)
(* Claims about the selectors (checked under SpecSelect)                   *)
(***************************************************************************)
NonRelativistic == {"RHF", "ROHF", "UHF"}

\* the plain class the claims expect of a selector for a many-electron molecule
PlainOf(s, m) ==
    CASE s = "RHF"  -> IF m.spin > 0 THEN "rohf.ROHF" ELSE "hf.RHF"
      [] s = "ROHF" -> "rohf.ROHF"
      [] s = "UHF"  -> "uhf.UHF"

\* C1: for a molecule with one electron every selector (RHF, ROHF, UHF, DHF)
\* returns a one-electron class and never a many-electron class, whatever the
\* spin, the symmetry flag and the point group are.
C1_OneElectronAlwaysHF1e ==
    (called # "none" /\ mol.nelectron = 1)
        => (result \in OneElectronVariants /\ result \notin ManyElectronVariants)

C1_Witness ==
    /\ called = "UHF"
    /\ mol.nelectron = 1
    /\ mol.spin = 2
    /\ mol.symmetry
    /\ mol.groupname.name = "D2h"
    /\ result = "hf_symm.HF1e"

\* C2 (as claimed): for a molecule with one electron the non-relativistic
\* selectors return the symmetry one-electron class exactly when symmetry is
\* on and the point group is not 'C1', and the plain one-electron class in
\* every other case.
C2_SymmHF1eOnlyIfNontrivial ==
    (called \in NonRelativistic /\ mol.nelectron = 1)
        => result = (IF mol.symmetry /\ mol.groupname.name # "C1"
                     THEN "hf_symm.HF1e" ELSE "hf.HF1e")

\* C3 (as claimed): with symmetry on and a point group other than 'C1' a
\* non-relativistic selector returns the symmetry-adapted counterpart of what
\* it returns for the same molecule with symmetry off; with symmetry off or
\* point group 'C1', and more or fewer than one electron, it returns the
\* plain class.
C3_SymmetryCounterpart ==
    called \in NonRelativistic =>
        /\ (mol.symmetry /\ mol.groupname.name # "C1")
              => result = SymmOf(Select(called, [mol EXCEPT !.symmetry = FALSE]))
        /\ ((~mol.symmetry \/ mol.groupname.name = "C1") /\ mol.nelectron # 1)
              => result = PlainOf(called, mol)

(***************************************************************************)
(* Solver handles and the collaborators fast_newton calls                  *)
(***************************************************************************)
LevelShifts == {0, 20, 30}

Energies == {-11, -10}

WarmEnergies == {-9}

DefaultLevelShift == 30

WarmConvTol == ".25"

WarmConvTolGrad == ".5"

SmallRhoCutoff == "1e-5"

\* The molecule of the solver handed to fast_newton.
H2 == [ nelectron |-> 2, spin |-> 0, symmetry |-> FALSE,
        groupname |-> [name |-> "C1", literal |-> TRUE] ]

\* A solver as its class constructs it.  The Kohn-Sham classes create grids
\* and _numint together; the Hartree-Fock classes have neither attribute.
NewSolver(cls, shift) ==
    [ NoSolver EXCEPT
        !.exists = TRUE, !.name = "mf", !.class = cls, !.level_shift = shift,
        !.grids = IF cls = "dft.RKS" THEN "mf.grids" ELSE "absent",
        !._numint = IF cls = "dft.RKS" THEN "mf._numint" ELSE "absent" ]

hasattr(h, a) ==
    CASE a = "grids"   -> h.grids # "absent"
      [] a = "_numint" -> h._numint # "absent"

\* mf.density_fit(auxbasis, with_df): a new solver object, a copy of mf with
\* the density-fitting decoration on top and no tensor cache built yet.
solver_density_fit(h, aux, nm) ==
    [ h EXCEPT !.name = nm, !.decor = Append(h.decor, "df"), !.auxbasis = aux,
               !._cderi = "None", !._naoaux = "None", !.kernel = "scf" ]

\* newton_ah.newton(mf): a new solver object, a copy of mf with the
\* augmented-Hessian Newton decoration on top.
newton_ah_newton(h, nm) ==
    [ h EXCEPT !.name = nm, !.decor = Append(h.decor, "newton"), !.kernel = "scf" ]

density_fit(h, aux, nm) == solver_density_fit(h, aux, nm)

newton(h, nm) == newton_ah_newton(h, nm)

\* df.addons.aug_etb_for_dfbasis(mf.mol, 'ahlrichs', beta=2.5)
aug_etb_for_dfbasis == "aug_etb(ahlrichs,beta=2.5)"

Naoaux(aux) == IF aux = aug_etb_for_dfbasis THEN "naoaux(aug_etb)" ELSE "naoaux(user)"

\* the tensor cache a density-fitted solver builds on first use
CacheOf(h) == IF h.name = "mf0" THEN "cderi@mf0" ELSE "cderi@mf1"

NeedsCache(h) == "df" \in Range(h.decor) /\ h._cderi = "None"

\* solver.kernel(...): runs the self-consistency loop to the end; conv and e
\* are what the loop ends with.
solver_kernel(h, conv, e) ==
    [ h EXCEPT
        !.converged = conv, !.e_tot = e,
        !.mo_energy = <<"mo_energy", h.name>>,
        !.mo_coeff = <<"mo_coeff", h.name>>,
        !.mo_occ = <<"mo_occ", h.name>>,
        !._cderi = IF NeedsCache(h) THEN CacheOf(h) ELSE @,
        !._naoaux = IF NeedsCache(h) THEN Naoaux(h.auxbasis) ELSE @ ]

\* solver.from_dm(dm): orbitals and occupations projected from a density matrix
from_dm(h, dm) ==
    [ mo_coeff |-> <<"from_dm.mo_coeff", h.name, dm>>,
      mo_occ   |-> <<"from_dm.mo_occ", h.name, dm>> ]

(***************************************************************************)
(* fast_newton, step by step                                               *)
(***************************************************************************)
BuildRefined_newton_outermost(base, aux) ==
    newton(density_fit(base, aux, "density_fit(mf)"), "mf1")

\* line 186
BuildRefined(base, aux) ==
    density_fit(newton(base, "newton(mf)"), aux, "mf1")

AttachGrids_unguarded(h, base) ==
    [ h EXCEPT !.grids = "approx_grids", !._numint = "approx_numint" ]

\* lines 189-198, the part that changes mf1.  Line 197 reads mf._numint under
\* the grids test alone: on a solver with grids and without _numint the read
\* raises AttributeError after the grid has been attached.
AttachGrids(h, base) ==
    IF hasattr(base, "grids")
    THEN [ h EXCEPT !.grids = "approx_grids",
                    !._numint = IF hasattr(base, "_numint") THEN "approx_numint"
                                ELSE "AttributeError" ]
    ELSE h

NeedsWarmStart_both_missing(c, o) == c = None /\ o = None

\* line 202
NeedsWarmStart(c, o) == c = None \/ o = None

WarmSettings_always_shift(h) ==
    [ h EXCEPT !.conv_tol = WarmConvTol, !.conv_tol_grad = WarmConvTolGrad,
               !.level_shift = DefaultLevelShift ]

\* lines 207-210
WarmSettings(h) ==
    [ h EXCEPT !.conv_tol = WarmConvTol, !.conv_tol_grad = WarmConvTolGrad,
               !.level_shift = IF h.level_shift = 0 THEN DefaultLevelShift ELSE @ ]

\* lines 211-219
WarmGrids(h, base) ==
    IF hasattr(base, "grids")
    THEN [ h EXCEPT !.grids = "approx_grids", !._numint = "approx_numint",
                    !.small_rho_cutoff = SmallRhoCutoff ]
    ELSE h

Results(h) ==
    [ converged |-> h.converged, e_tot |-> h.e_tot, mo_energy |-> h.mo_energy,
      mo_coeff |-> h.mo_coeff, mo_occ |-> h.mo_occ ]

\* The state in which fast_newton(mf, mo_coeff, mo_occ, dm0, auxbasis, **kw)
\* is entered: mf is a fresh solver made by scf.RHF(mol) or scf.RKS(mol).
Init ==
    /\ mol = H2
    /\ called \in {"RHF", "RKS"}
    /\ result = (IF called = "RHF" THEN RHF(mol) ELSE RKS(mol))
    /\ pc = "start"
    /\ \E shift \in LevelShifts : mf = NewSolver(result, shift)
    /\ dm0 \in {"None", "dm_user"}
    /\ mo_coeff \in {None, <<"mo_coeff", "user">>}
    /\ mo_occ \in {None, <<"mo_occ", "user">>}
    /\ auxbasis \in {"None", "weigend"}
    /\ newton_kwargs \in {{}, {"max_cycle_inner"}}
    /\ args = [dm0 |-> dm0, mo_coeff |-> mo_coeff, mo_occ |-> mo_occ,
               auxbasis |-> auxbasis]
    /\ mf1 = NoSolver
    /\ mf0 = NoSolver
    /\ approx_grids = NoGrids
    /\ made = <<>>
    /\ runs = <<>>
    /\ built = <<>>
    /\ written = NoResults
    /\ ret = NoReturn
    /\ recalls = 0

\* lines 184-198
Setup ==
    /\ pc = "start"
    /\ LET aux == IF auxbasis = "None" THEN aug_etb_for_dfbasis ELSE auxbasis
           m1  == BuildRefined(mf, aux)
           m2  == [ m1 EXCEPT !.attrs = @ \cup newton_kwargs ]
       IN  /\ auxbasis' = aux
           /\ mf1' = AttachGrids(m2, mf)
           /\ approx_grids' =
                 IF AttachGrids(m2, mf).grids = "approx_grids"
                 THEN [ exists |-> TRUE, level |-> 0, verbose |-> 0, pruned |-> FALSE ]
                 ELSE approx_grids
           /\ made' = Append(made, m1.name)
           /\ pc' = IF AttachGrids(m2, mf)._numint = "AttributeError"
                    THEN "raised" ELSE "seed"
    /\ UNCHANGED <<selvars, mf, dm0, mo_coeff, mo_occ, newton_kwargs, mf0, args,
                   runs, built, written, ret, recalls>>

\* lines 200-201
SeedFromDm ==
    /\ pc = "seed"
    /\ dm0 # "None"
    /\ mo_coeff' = from_dm(mf1, dm0).mo_coeff
    /\ mo_occ' = from_dm(mf1, dm0).mo_occ
    /\ pc' = "refine"
    /\ UNCHANGED <<selvars, mf, dm0, auxbasis, newton_kwargs, mf1, mf0, approx_grids,
                   args, made, runs, built, written, ret, recalls>>

\* lines 200-202, neither branch taken
SeedFromCaller ==
    /\ pc = "seed"
    /\ dm0 = "None"
    /\ ~NeedsWarmStart(mo_coeff, mo_occ)
    /\ pc' = "refine"
    /\ UNCHANGED <<selvars, mf, dm0, mo_coeff, mo_occ, auxbasis, newton_kwargs, mf1,
                   mf0, approx_grids, args, made, runs, built, written, ret, recalls>>

\* lines 202-219
WarmSetup ==
    /\ pc = "seed"
    /\ dm0 = "None"
    /\ NeedsWarmStart(mo_coeff, mo_occ)
    /\ mf0' = WarmGrids(WarmSettings(density_fit(mf, auxbasis, "mf0")), mf)
    /\ made' = Append(made, "mf0")
    /\ pc' = "warm_run"
    /\ UNCHANGED <<selvars, mf, dm0, mo_coeff, mo_occ, auxbasis, newton_kwargs, mf1,
                   approx_grids, args, runs, built, written, ret, recalls>>

\* line 220: mf0.kernel().  With small_rho_cutoff set the Kohn-Sham loop may
\* prune the shared grid object in place (the note at lines 214-218).
WarmKernel ==
    /\ pc = "warm_run"
    /\ \E conv \in BOOLEAN, e \in WarmEnergies :
          mf0' = solver_kernel(mf0, conv, e)
    /\ runs' = Append(runs, "mf0")
    /\ built' = IF NeedsCache(mf0) THEN Append(built, CacheOf(mf0)) ELSE built
    /\ \E p \in BOOLEAN :
          approx_grids' =
             IF mf0.grids = "approx_grids" /\ mf0.small_rho_cutoff # "absent"
             THEN [ approx_grids EXCEPT !.pruned = p ]
             ELSE approx_grids
    /\ pc' = "handoff"
    /\ UNCHANGED <<selvars, mf, dm0, mo_coeff, mo_occ, auxbasis, newton_kwargs, mf1,
                   args, made, written, ret, recalls>>

Handoff_without_cache ==
    /\ pc = "handoff"
    /\ mo_coeff' = mf0.mo_coeff
    /\ mo_occ' = mf0.mo_occ
    /\ pc' = "refine"
    /\ UNCHANGED <<selvars, mf, dm0, auxbasis, newton_kwargs, mf1, mf0, approx_grids,
                   args, made, runs, built, written, ret, recalls>>

\* lines 222-227
Handoff ==
    /\ pc = "handoff"
    /\ mf1' = [ mf1 EXCEPT !._cderi = mf0._cderi, !._naoaux = mf0._naoaux ]
    /\ mo_coeff' = mf0.mo_coeff
    /\ mo_occ' = mf0.mo_occ
    /\ pc' = "refine"
    /\ UNCHANGED <<selvars, mf, dm0, auxbasis, newton_kwargs, mf0, approx_grids,
                   args, made, runs, built, written, ret, recalls>>

\* line 229: mf1.kernel(mo_coeff, mo_occ)
Refine ==
    /\ pc = "refine"
    /\ \E conv \in BOOLEAN, e \in Energies :
          mf1' = solver_kernel(mf1, conv, e)
    /\ runs' = Append(runs, "mf1")
    /\ built' = IF NeedsCache(mf1) THEN Append(built, CacheOf(mf1)) ELSE built
    /\ pc' = "copy"
    /\ UNCHANGED <<selvars, mf, dm0, mo_coeff, mo_occ, auxbasis, newton_kwargs, mf0,
                   approx_grids, args, made, written, ret, recalls>>

Finalize_flag_of_warm_start ==
    /\ pc = "copy"
    /\ mf' = [ mf EXCEPT !.converged = IF mf0.exists THEN mf0.converged
                                       ELSE mf1.converged,
                         !.e_tot = mf1.e_tot, !.mo_energy = mf1.mo_energy,
                         !.mo_coeff = mf1.mo_coeff, !.mo_occ = mf1.mo_occ,
                         !.kernel = "mf_kernel" ]
    /\ written' = Results(mf') @@ [ nruns |-> Len(runs) ]
    /\ pc' = "returned"
    /\ UNCHANGED <<selvars, dm0, mo_coeff, mo_occ, auxbasis, newton_kwargs, mf1, mf0,
                   approx_grids, args, made, runs, built, ret, recalls>>

Finalize_kernel_kept ==
    /\ pc = "copy"
    /\ mf' = [ mf EXCEPT !.converged = mf1.converged, !.e_tot = mf1.e_tot,
                         !.mo_energy = mf1.mo_energy, !.mo_coeff = mf1.mo_coeff,
                         !.mo_occ = mf1.mo_occ ]
    /\ written' = Results(mf') @@ [ nruns |-> Len(runs) ]
    /\ pc' = "returned"
    /\ UNCHANGED <<selvars, dm0, mo_coeff, mo_occ, auxbasis, newton_kwargs, mf1, mf0,
                   approx_grids, args, made, runs, built, ret, recalls>>

\* lines 230-242
Finalize ==
    /\ pc = "copy"
    /\ mf' = [ mf EXCEPT !.converged = mf1.converged, !.e_tot = mf1.e_tot,
                         !.mo_energy = mf1.mo_energy, !.mo_coeff = mf1.mo_coeff,
                         !.mo_occ = mf1.mo_occ, !.kernel = "mf_kernel" ]
    /\ written' = Results(mf') @@ [ nruns |-> Len(runs) ]
    /\ pc' = "returned"
    /\ UNCHANGED <<selvars, dm0, mo_coeff, mo_occ, auxbasis, newton_kwargs, mf1, mf0,
                   approx_grids, args, made, runs, built, ret, recalls>>

\* The caller invokes mf.kernel(*a) on the handle fast_newton returned.  The
\* attribute set at line 241 shadows the class's kernel; lines 236-240 are
\* what then runs.
CallKernel ==
    /\ pc = "returned"
    /\ recalls < MaxRecalls
    /\ recalls' = recalls + 1
    /\ \E a \in {None, <<"mo_coeff", "user">>, <<"dm", "user">>} :
          IF mf.kernel = "mf_kernel"
          THEN /\ ret' = [ e_tot |-> mf.e_tot, with |-> a ]
               /\ UNCHANGED <<mf, runs>>
          ELSE \E conv \in BOOLEAN, e \in Energies :
                  /\ mf' = solver_kernel(mf, conv, e)
                  /\ runs' = Append(runs, "mf")
                  /\ ret' = [ e_tot |-> e, with |-> a ]
    /\ UNCHANGED <<selvars, pc, dm0, mo_coeff, mo_occ, auxbasis, newton_kwargs, mf1,
                   mf0, approx_grids, args, made, built, written>>

Next ==
    \/ Setup
    \/ SeedFromDm
    \/ SeedFromCaller
    \/ WarmSetup
    \/ WarmKernel
    \/ Handoff
    \/ Refine
    \/ Finalize
    \/ CallKernel

Spec == Init /\ [][Next]_vars

(***************************************************************************)
(* Claims about fast_newton (checked under Spec)                           *)
(***************************************************************************)
Seeded == pc \in {"refine", "copy", "returned"}

\* C4: the seed of the refined solver is chosen by first match: dm0 given ->
\* the refined solver's from_dm projection of dm0, and no warm-start solver is
\* made or run, whatever orbitals were passed; else both mo_coeff and mo_occ
\* given -> they are the seed unchanged, and no warm-start solver is made or
\* run; otherwise the warm-start solver is made and run exactly once and its
\* orbitals and occupations are the seed.
C4_SeedByFirstMatch ==
    /\ Count("mf0", made) <= 1
    /\ Count("mf0", runs) <= Count("mf0", made)
    /\ "mf0" \in Range(made) =>
          /\ args.dm0 = "None"
          /\ args.mo_coeff = None \/ args.mo_occ = None
    /\ Seeded =>
          IF args.dm0 # "None"
          THEN /\ mo_coeff = <<"from_dm.mo_coeff", "mf1", args.dm0>>
               /\ mo_occ = <<"from_dm.mo_occ", "mf1", args.dm0>>
               /\ "mf0" \notin Range(made) \cup Range(runs)
               /\ ~mf0.exists
          ELSE IF args.mo_coeff # None /\ args.mo_occ # None
          THEN /\ mo_coeff = args.mo_coeff
               /\ mo_occ = args.mo_occ
               /\ "mf0" \notin Range(made) \cup Range(runs)
               /\ ~mf0.exists
          ELSE /\ Count("mf0", made) = 1
               /\ Count("mf0", runs) = 1
               /\ mo_coeff = <<"mo_coeff", "mf0">>
               /\ mo_occ = <<"mo_occ", "mf0">>
               /\ mo_coeff = mf0.mo_coeff
               /\ mo_occ = mf0.mo_occ

\* only mo_coeff was passed: the partial guess is dropped and the warm start seeds
C4_Witness ==
    /\ pc = "refine"
    /\ args.dm0 = "None"
    /\ args.mo_coeff # None
    /\ args.mo_occ = None
    /\ runs = <<"mf0">>
    /\ mo_coeff = mf0.mo_coeff

\* C5: a warm start that did not converge never stops the pipeline: the
\* refinement runs exactly once, after the warm start (if any) has returned,
\* whatever the warm start's converged flag; on return mf carries the refined
\* solver's converged, e_tot, mo_energy, mo_coeff and mo_occ.
C5_RefinementAlwaysRunsAndIsCopied ==
    /\ Count("mf1", runs) <= 1
    /\ "mf0" \in Range(runs) => pc \in {"handoff", "refine", "copy", "returned"}
    /\ "mf1" \in Range(runs) =>
          runs = (IF mf0.exists THEN <<"mf0", "mf1">> ELSE <<"mf1">>)
    /\ pc \in {"copy", "returned"} => Count("mf1", runs) = 1
    /\ pc = "returned" =>
          /\ mf.converged = mf1.converged
          /\ mf.e_tot = mf1.e_tot
          /\ mf.mo_energy = mf1.mo_energy
          /\ mf.mo_coeff = mf1.mo_coeff
          /\ mf.mo_occ = mf1.mo_occ
          /\ mf.mo_coeff = <<"mo_coeff", "mf1">>

C5_Witness ==
    /\ pc = "returned"
    /\ runs = <<"mf0", "mf1">>
    /\ ~mf0.converged
    /\ mf1.converged
    /\ mf.converged

\* C6: after fast_newton has returned, every call of mf.kernel, with any
\* arguments, runs no solver, returns the e_tot the pipeline wrote and leaves
\* converged, e_tot, mo_energy, mo_coeff and mo_occ as the pipeline wrote them.
C6_KernelAfterReturnIsCached ==
    pc = "returned" =>
        /\ Results(mf) = [ f \in DOMAIN Results(mf) |-> written[f] ]
        /\ Len(runs) = written.nruns
        /\ recalls > 0 => ret.e_tot = written.e_tot

C6_Witness ==
    /\ pc = "returned"
    /\ recalls >= 2
    /\ ret.with # None
    /\ ret.e_tot = mf1.e_tot
    /\ mf.converged

\* C7: in a run with a warm start the auxiliary tensor cache is built at most
\* once, by the warm-start solver; when the refinement starts, the refined
\* solver's _cderi and _naoaux are the warm-start solver's populated cache and
\* its dimension, and the refined solver builds none of its own.
C7_CacheBuiltOnceAndShared ==
    "mf0" \in Range(runs) =>
        /\ Len(built) <= 1
        /\ Range(built) \subseteq {"cderi@mf0"}
        /\ pc \in {"refine", "copy", "returned"} =>
              /\ built = <<"cderi@mf0">>
              /\ mf1._cderi = "cderi@mf0"
              /\ mf1._cderi = mf0._cderi
              /\ mf1._naoaux = mf0._naoaux
              /\ mf1._naoaux # "None"

C7_Witness ==
    /\ pc = "copy"
    /\ runs = <<"mf0", "mf1">>
    /\ built = <<"cderi@mf0">>
    /\ mf1._cderi = mf0._cderi

C10_WarmStartSettings ==
    (pc = "warm_run" \/ "mf0" \in Range(runs)) =>
        /\ mf0.conv_tol = ".25"
        /\ mf0.conv_tol_grad = ".5"
        /\ mf0.level_shift # 0
        /\ mf.level_shift = 0 => mf0.level_shift = 30
        /\ mf.level_shift # 0 => mf0.level_shift = mf.level_shift

C10_Witness ==
    /\ pc = "handoff"
    /\ mf.level_shift = 20
    /\ mf0.level_shift = 20
    /\ mf0.conv_tol = ".25"

====
